---- MODULE Spec2Model ----
(***************************************************************************)
(* Sale transaction workflow of the inventory REST API: the sale service   *)
(* (CreateSale, UpdateSaleStatus, restoreProductStock), the product        *)
(* service (Update, UpdateStock, Delete) and the repository statements     *)
(* they issue against the products, sales and sale_items tables.           *)
(*                                                                         *)
(* Every HTTP request is served by its own goroutine and every repository  *)
(* call is one SQL statement, so a handler is a sequence of atomic steps,  *)
(* one per statement; steps of different requests interleave freely.       *)
(* Money is counted in cents (DECIMAL(15,2) columns).                      *)
(***************************************************************************)
EXTENDS Integers, Sequences, FiniteSets, TLC

VARIABLES
    products,    \* products table: id -> [stock, price, deleted]
    sales,       \* sales table: sequence of rows, the id is the index
    sale_items,  \* sale_items table: sequence of rows in insertion order
    th,          \* one in-flight request per client: handler position and locals
    stock0,      \* history: stock_quantity of every product at start-up
    before,      \* history: the tables as the request being served found them
    users,       \* users table: sequence of rows, the id is the index
    sessions,    \* sessions table: sequence of rows, the token is the index
    ctx          \* request context of every client: the user the Auth middleware stored

vars == <<products, sales, sale_items, th, stock0, before, users, sessions, ctx>>

-----------------------------------------------------------------------------
(* Bounds of the model *)

MaxStock == 2
MaxQty == 2
MaxItems == 2
MaxSales == 2
MaxSerialSales == 1
StockCap == 3
NumClients == 2
MaxDay == 3
DaysPerMonth == 2
MaxUsers == 4
MaxSessions == 2
\* min_stock_level of every product; no modelled request changes it
MinStockLevel == 1

\* limit := 10 and l <= 100 of SaleHandler.FindAll, as in utils.NewPagination
DefaultLimit == 10
MaxLimit == 100

\* generateInvoiceNumber keeps time.Now().Nanosecond() % 10000
InvoiceModulus == 10000

Products == {"p1", "p2"}
Clients == 1..NumClients
Prices == {3, 5}
InitialPrice == [p \in Products |-> IF p = "p1" THEN 5 ELSE 3]

SaleStatusPending == "pending"
SaleStatusCompleted == "completed"
SaleStatusCancelled == "cancelled"
Statuses == {SaleStatusPending, SaleStatusCompleted, SaleStatusCancelled}
\* status strings a client may send: the three valid ones and an unknown one
StatusInputs == Statuses \cup {"refunded"}

RoleSuperAdmin == "super_admin"
RoleAdmin == "admin"
RoleStaff == "staff"
Roles == {RoleSuperAdmin, RoleAdmin, RoleStaff}
\* role strings a client may send: the three valid ones and an unknown one
RoleInputs == Roles \cup {"owner"}

\* e-mail addresses; the three accounts of schema.sql hold the first three
Emails == 1..MaxUsers

\* INSERT INTO users ... VALUES superadmin, admin, staff: ids 1, 2 and 3
SeedUsers ==
    <<[email |-> 1, role |-> RoleSuperAdmin, is_active |-> TRUE, deleted |-> FALSE],
      [email |-> 2, role |-> RoleAdmin, is_active |-> TRUE, deleted |-> FALSE],
      [email |-> 3, role |-> RoleStaff, is_active |-> TRUE, deleted |-> FALSE]>>

\* the request context before the Auth middleware has stored a user
NoUser == [id |-> 0, role |-> "", token |-> 0]

\* the seeded staff account, authenticated by the token of its session
SeedStaff == [id |-> 3, role |-> RoleStaff, token |-> 1]

\* calendar days, and the instants at which the clock is read: a day, whether
\* midnight of that day has passed, and the nanosecond within the second
Days == 1..MaxDay
Nanoseconds == {1, 2, InvoiceModulus + 1}
Instants == [day : Days, late : BOOLEAN, nanosecond : Nanoseconds]

LineItems == [product : Products, quantity : 1..MaxQty]
RECURSIVE SeqsUpTo(_, _)
SeqsUpTo(S, n) ==
    IF n = 0 THEN {<<>>}
    ELSE LET shorter == SeqsUpTo(S, n - 1)
         IN  shorter \cup {Append(s, x) : s \in {t \in shorter : Len(t) = n - 1}, x \in S}
\* request bodies of POST /api/sales: the well-formed carts, the empty cart,
\* a cart with a zero or a negative quantity and a cart with a large and a
\* zero quantity
Carts ==
    SeqsUpTo(LineItems, MaxItems)
        \cup {<<[product |-> p, quantity |-> q]>> : p \in Products, q \in {-1, 0}}
        \cup {<<[product |-> p, quantity |-> MaxQty], [product |-> p, quantity |-> 0]>> :
                    p \in Products}

-----------------------------------------------------------------------------
(* Pure helpers *)

RECURSIVE SumQuantity(_)
\* sum of the quantities of a sequence of sale items
SumQuantity(s) == IF s = <<>> THEN 0 ELSE Head(s).quantity + SumQuantity(Tail(s))

RECURSIVE SumTotalPrice(_)
\* sum of the total_price column of a sequence of sale items
SumTotalPrice(s) == IF s = <<>> THEN 0 ELSE Head(s).total_price + SumTotalPrice(Tail(s))

RECURSIVE SumLineTotal(_)
\* sum of quantity * unit_price over a sequence of sale items
SumLineTotal(s) ==
    IF s = <<>> THEN 0
    ELSE Head(s).quantity * Head(s).unit_price + SumLineTotal(Tail(s))

ItemsOfSale(id) == SelectSeq(sale_items, LAMBDA it : it.sale = id)
ItemsOfProduct(s, p) == SelectSeq(s, LAMBDA it : it.product = p)
QtyOfProduct(s, p) == SumQuantity(ItemsOfProduct(s, p))

-----------------------------------------------------------------------------
(* Repository statements *)

NoProduct == [found |-> FALSE, stock |-> 0, price |-> 0]

\* SELECT ... WHERE id = $1 AND deleted_at IS NULL
FindByID(id) ==
    IF ~products[id].deleted
    THEN [found |-> TRUE, stock |-> products[id].stock, price |-> products[id].price]
    ELSE NoProduct

\* faulty variant: a stock check that does not compare the stock
CheckStockAnyQuantity(id, requiredQuantity) == FindByID(id)

\* SELECT ... WHERE id = $1 AND deleted_at IS NULL AND stock_quantity >= $2
CheckStock(id, requiredQuantity) ==
    IF ~products[id].deleted /\ products[id].stock >= requiredQuantity
    THEN [found |-> TRUE, stock |-> products[id].stock, price |-> products[id].price]
    ELSE NoProduct

\* UPDATE products SET stock_quantity = $1 WHERE id = $3 AND deleted_at IS NULL,
\* refused before the statement when the quantity is negative
UpdateStock(id, quantity) ==
    IF quantity < 0 \/ products[id].deleted
    THEN products
    ELSE [products EXCEPT ![id].stock = quantity]

\* UPDATE products SET unit_price = $5, stock_quantity = $7, ... WHERE id = $10
\* AND deleted_at IS NULL: writes every column from the struct it is given
UpdateProductRow(id, row) ==
    IF products[id].deleted
    THEN products
    ELSE [products EXCEPT ![id].stock = row.stock, ![id].price = row.price]

\* UPDATE products SET deleted_at = $1 WHERE id = $2 AND deleted_at IS NULL
DeleteProductRow(id) == [products EXCEPT ![id].deleted = TRUE]

\* INSERT INTO sales ...: the new row, status defaulting to completed and
\* created_at taken from the clock
NewSaleRow(invoiceNumber, userID, totalAmount, status, now) ==
    [invoice_number |-> invoiceNumber,
     user_id |-> userID,
     total_amount |-> totalAmount,
     status |-> IF status = "" THEN SaleStatusCompleted ELSE status,
     created_at |-> [day |-> now.day, late |-> now.late]]

\* invoice_number VARCHAR(50) UNIQUE NOT NULL: the INSERT is refused when a
\* row holds the number already
InvoiceNumberFree(invoiceNumber) ==
    \A id \in 1..Len(sales) : sales[id].invoice_number # invoiceNumber

\* INSERT INTO sale_items ... VALUES (...), (...): one batch statement
CreateSaleItems(items) == sale_items \o items

\* faulty variant: a status update that writes nothing
UpdateSaleStatusRowKeep(id, status) == sales

\* UPDATE sales SET status = $1 WHERE id = $3 AND deleted_at IS NULL
UpdateSaleStatusRow(id, status) == [sales EXCEPT ![id].status = status]

\* SELECT ... FROM sales WHERE id = $1 AND deleted_at IS NULL
SaleExists(id) == id \in 1..Len(sales)

\* INSERT INTO sessions ...: expires_at lies 24 hours ahead and revoked_at is
\* NULL; expired tells whether the clock has passed expires_at
NewSession(userID) == [user_id |-> userID, revoked |-> FALSE, expired |-> FALSE]

\* identifiers are UUIDs drawn per table: a row number together with its table
UserUUID(n) == [table |-> "users", n |-> n]
SaleUUID(n) == [table |-> "sales", n |-> n]

\* the sale a UUID names, 0 when it names none
SaleIndex(id) == IF id.table = "sales" THEN id.n ELSE 0

\* the user a UUID names, 0 when it names none
UserIndex(id) == IF id.table = "users" THEN id.n ELSE 0

\* userRepo.FindByID: WHERE id = $1 AND deleted_at IS NULL
UserExists(id) == id \in 1..Len(users) /\ ~users[id].deleted

\* userRepo.FindByEmail: WHERE email = $1 AND deleted_at IS NULL
UsersByEmail(email) == {id \in 1..Len(users) : users[id].email = email /\ ~users[id].deleted}

\* email VARCHAR(100) UNIQUE NOT NULL, over deleted rows as well
EmailFree(email) == \A id \in 1..Len(users) : users[id].email # email

\* faulty variant: a lookup that also returns revoked sessions
FindByTokenRevoked(token) == token \in 1..Len(sessions) /\ ~sessions[token].expired

\* sessionRepo.FindByToken: WHERE token = $1 AND revoked_at IS NULL, then
\* time.Now().After(session.ExpiresAt) is refused
FindByToken(token) ==
    /\ token \in 1..Len(sessions)
    /\ ~sessions[token].revoked
    /\ ~sessions[token].expired

\* UPDATE sessions SET revoked_at = $1 WHERE token = $2 AND revoked_at IS NULL
DeleteByToken(token) == [sessions EXCEPT ![token].revoked = TRUE]

\* UPDATE sessions SET revoked_at = $1 WHERE user_id = $2 AND revoked_at IS NULL
DeleteByUserID(userID) ==
    [token \in 1..Len(sessions) |->
        IF sessions[token].user_id = userID
        THEN [sessions[token] EXCEPT !.revoked = TRUE]
        ELSE sessions[token]]

-----------------------------------------------------------------------------
(* Request state *)

NoResp == [total_amount |-> 0, status |-> "", items |-> <<>>]

Idle ==
    [op |-> "idle", pc |-> "idle", cart |-> <<>>, i |-> 0, saleItems |-> <<>>,
     totalAmount |-> 0, saleId |-> 0, status |-> "", existing |-> "",
     read |-> 0, target |-> "p1", row |-> [stock |-> 0, price |-> 0],
     skipped |-> {}, startDate |-> 0, endDate |-> 0, groupBy |-> "",
     req |-> <<>>, result |-> "", resp |-> NoResp]

\* history: the three tables
Tables == [products |-> products, sales |-> sales, sale_items |-> sale_items]

AllIdle == \A c \in Clients : th[c].pc = "idle"

Finish(r, result) == [r EXCEPT !.pc = "done", !.result = result]

\* faulty variant: a response that shows the current price of the product
SaleResponseAtCurrentPrice(id) ==
    [total_amount |-> sales[id].total_amount, status |-> sales[id].status,
     items |-> [k \in 1..Len(ItemsOfSale(id)) |->
                  [ItemsOfSale(id)[k] EXCEPT
                      !.unit_price = products[ItemsOfSale(id)[k].product].price]]]

\* getSaleWithItems: the sale row and its items as the response carries them
SaleResponse(id) ==
    [total_amount |-> sales[id].total_amount, status |-> sales[id].status,
     items |-> ItemsOfSale(id)]

-----------------------------------------------------------------------------
(* Initial state: an empty ledger over a stocked catalogue *)

Init ==
    /\ \E st \in [Products -> 0..MaxStock] :
          /\ products = [p \in Products |->
                            [stock |-> st[p], price |-> InitialPrice[p], deleted |-> FALSE]]
          /\ stock0 = st
    /\ sales = <<>>
    /\ sale_items = <<>>
    /\ th = [c \in Clients |-> Idle]
    /\ before = Tables
    /\ users = SeedUsers
    /\ sessions = <<NewSession(SeedStaff.id)>>
    /\ ctx = [c \in Clients |-> SeedStaff]

-----------------------------------------------------------------------------
(* saleService.CreateSale *)

\* faulty variant: the quantities are not validated
ValidCartNonEmpty(cart) == Len(cart) >= 1

\* validate:"required,min=1,dive" on items, "required,min=1" on quantity
ValidCart(cart) == Len(cart) >= 1 /\ \A k \in 1..Len(cart) : cart[k].quantity >= 1

\* faulty variant: a line total that forgets the quantity
ItemTotalOfOne(unitPrice, quantity) == unitPrice

\* itemTotal := product.UnitPrice * float64(itemReq.Quantity)
ItemTotal(unitPrice, quantity) == unitPrice * quantity

\* newStock := product.StockQuantity - item.Quantity, floored at 0
DeductedStock(stockQuantity, quantity) ==
    IF stockQuantity - quantity < 0 THEN 0 ELSE stockQuantity - quantity

\* the request arrives and is validated
BeginCreateSale(c, cart) ==
    /\ th[c].pc = "idle"
    /\ th' = [th EXCEPT ![c] =
                IF ValidCart(cart)
                THEN [Idle EXCEPT !.op = "CreateSale", !.pc = "check", !.cart = cart,
                                  !.i = 1]
                ELSE Finish([Idle EXCEPT !.op = "CreateSale", !.cart = cart],
                            "InvalidRequest")]
    /\ UNCHANGED <<products, sales, sale_items, stock0, before, users, sessions, ctx>>

\* one turn of the first loop: CheckStock, then the line total and the item
CheckItem(c, ok) ==
    /\ th[c].op = "CreateSale" /\ th[c].pc = "check"
    /\ LET r == th[c]
           itemReq == r.cart[r.i]
           product == CheckStock(itemReq.product, itemReq.quantity)
           itemTotal == ItemTotal(product.price, itemReq.quantity)
           saleItem == [sale |-> 0, product |-> itemReq.product,
                        quantity |-> itemReq.quantity, unit_price |-> product.price,
                        total_price |-> itemTotal]
       IN  th' = [th EXCEPT ![c] =
                    IF ~ok \/ ~product.found
                    THEN Finish(r, "InsufficientStock")
                    ELSE [r EXCEPT !.totalAmount = @ + itemTotal,
                                   !.saleItems = Append(@, saleItem),
                                   !.i = @ + 1,
                                   !.pc = IF r.i = Len(r.cart) THEN "insertSale" ELSE "check"]]
    /\ UNCHANGED <<products, sales, sale_items, stock0, before, users, sessions, ctx>>

\* "INV-" date "-" and the last four digits of the nanosecond
generateInvoiceNumber(now) == <<now.day, now.nanosecond % InvoiceModulus>>

\* the clock does not run backwards: now is not before the newest sale
ClockAt(now) == \A id \in 1..Len(sales) : sales[id].created_at.day <= now.day

\* generateInvoiceNumber and repo.Sale.CreateSale at instant now, then the
\* sale id is linked to every item
InsertSaleAt(c, ok, now) ==
    /\ th[c].op = "CreateSale" /\ th[c].pc = "insertSale"
    /\ ClockAt(now)
    /\ LET r == th[c]
           id == Len(sales) + 1
           invoiceNumber == generateInvoiceNumber(now)
       IN  IF ok /\ InvoiceNumberFree(invoiceNumber)
           THEN /\ sales' = Append(sales, NewSaleRow(invoiceNumber, ctx[c].id, r.totalAmount,
                                                     SaleStatusCompleted, now))
                /\ th' = [th EXCEPT ![c] =
                            [r EXCEPT !.saleId = id, !.pc = "insertItems",
                                      !.saleItems = [k \in 1..Len(r.saleItems) |->
                                                        [r.saleItems[k] EXCEPT !.sale = id]]]]
           ELSE /\ th' = [th EXCEPT ![c] = Finish(r, "Internal")]
                /\ UNCHANGED sales
    /\ UNCHANGED <<products, sale_items, stock0, before, users, sessions, ctx>>

\* the same on the first day, under a clock that has advanced by a nanosecond
\* since the sale before
InsertSale(c, ok) ==
    InsertSaleAt(c, ok, [day |-> 1, late |-> TRUE, nanosecond |-> Len(sales) + 1])

\* repo.Sale.CreateSaleItems: on failure the handler returns, the header stays
InsertItems(c, ok) ==
    /\ th[c].op = "CreateSale" /\ th[c].pc = "insertItems"
    /\ LET r == th[c]
       IN  IF ok /\ Len(r.saleItems) > 0
           THEN /\ sale_items' = CreateSaleItems(r.saleItems)
                /\ th' = [th EXCEPT ![c] = [r EXCEPT !.pc = "deductRead", !.i = 1]]
           ELSE /\ th' = [th EXCEPT ![c] = Finish(r, "Internal")]
                /\ UNCHANGED sale_items
    /\ UNCHANGED <<products, sales, stock0, before, users, sessions, ctx>>

\* where the stock loops go after item i: the next item, or the final read
AfterItem(r, items) ==
    IF r.i >= Len(items) THEN [r EXCEPT !.pc = "fetch", !.i = 0]
    ELSE [r EXCEPT !.i = @ + 1, !.pc = IF r.op = "CreateSale" THEN "deductRead" ELSE "restoreRead"]

\* second loop, first statement: FindByID; a failure is logged and skipped
DeductRead(c, ok) ==
    /\ th[c].op = "CreateSale" /\ th[c].pc = "deductRead"
    /\ LET r == th[c]
           product == FindByID(r.saleItems[r.i].product)
       IN  th' = [th EXCEPT ![c] =
                    IF ok /\ product.found
                    THEN [r EXCEPT !.read = product.stock, !.pc = "deductWrite"]
                    ELSE AfterItem(r, r.saleItems)]
    /\ UNCHANGED <<products, sales, sale_items, stock0, before, users, sessions, ctx>>

\* second loop, second statement: UpdateStock with the stock computed from the
\* value read before; a failure is logged and the loop goes on
DeductWrite(c, ok) ==
    /\ th[c].op = "CreateSale" /\ th[c].pc = "deductWrite"
    /\ LET r == th[c]
           item == r.saleItems[r.i]
           newStock == DeductedStock(r.read, item.quantity)
       IN  /\ products' = IF ok THEN UpdateStock(item.product, newStock) ELSE products
           /\ th' = [th EXCEPT ![c] = AfterItem(r, r.saleItems)]
    /\ UNCHANGED <<sales, sale_items, stock0, before, users, sessions, ctx>>

\* getSaleWithItems closes CreateSale and UpdateSaleStatus
FetchSale(c, ok) ==
    /\ th[c].pc = "fetch"
    /\ LET r == th[c]
       IN  th' = [th EXCEPT ![c] =
                    IF ok /\ SaleExists(r.saleId)
                    THEN Finish([r EXCEPT !.resp = SaleResponse(r.saleId)], "ok")
                    ELSE Finish(r, "Internal")]
    /\ UNCHANGED <<products, sales, sale_items, stock0, before, users, sessions, ctx>>

\* no request is in flight
Quiescent == \A c \in Clients : th[c].pc \in {"idle", "done"}

\* the responses are written and the clients may send their next requests;
\* from here the history holds the tables as the next requests find them
EndRound ==
    /\ Quiescent /\ ~AllIdle
    /\ th' = [c \in Clients |-> Idle]
    /\ before' = Tables
    /\ UNCHANGED <<products, sales, sale_items, stock0, users, sessions, ctx>>

-----------------------------------------------------------------------------
(* saleService.UpdateSaleStatus and restoreProductStock *)

\* faulty variant: the status string is not validated
ValidStatusAny(status) == TRUE

\* validate:"required,oneof=pending completed cancelled" and the switch on req.Status
ValidStatus(status) == status \in Statuses

\* faulty variant: every move to cancelled restores, whatever the status was
TriggersRestoreOnCancel(existing, newStatus) == newStatus = SaleStatusCancelled

\* if existingSale.Status == completed && newStatus == cancelled
TriggersRestore(existing, newStatus) ==
    existing = SaleStatusCompleted /\ newStatus = SaleStatusCancelled

\* faulty variant: a restoration that adds nothing
RestoredStockSame(stockQuantity, quantity) == stockQuantity

\* newStock := product.StockQuantity + item.Quantity
RestoredStock(stockQuantity, quantity) == stockQuantity + quantity

\* the request arrives and is validated
BeginUpdateSaleStatus(c, id, status) ==
    /\ th[c].pc = "idle"
    /\ th' = [th EXCEPT ![c] =
                LET r == [Idle EXCEPT !.op = "UpdateSaleStatus", !.saleId = id,
                                      !.status = status]
                IN  IF ValidStatus(status) THEN [r EXCEPT !.pc = "find"]
                    ELSE Finish(r, "InvalidRequest")]
    /\ UNCHANGED <<products, sales, sale_items, stock0, before, users, sessions, ctx>>

\* FindSaleByID: the current status is read here, before the write
FindSale(c, ok) ==
    /\ th[c].op = "UpdateSaleStatus" /\ th[c].pc = "find"
    /\ LET r == th[c]
       IN  th' = [th EXCEPT ![c] =
                    IF ~ok \/ ~SaleExists(r.saleId) THEN Finish(r, "NotFound")
                    ELSE IF ~ValidStatus(r.status) THEN Finish(r, "InvalidRequest")
                    ELSE [r EXCEPT !.existing = sales[r.saleId].status, !.pc = "write"]]
    /\ UNCHANGED <<products, sales, sale_items, stock0, before, users, sessions, ctx>>

\* repo.Sale.UpdateSaleStatus, then the decision to restore
WriteStatus(c, ok) ==
    /\ th[c].op = "UpdateSaleStatus" /\ th[c].pc = "write"
    /\ LET r == th[c]
       IN  IF ok /\ SaleExists(r.saleId)
           THEN /\ sales' = UpdateSaleStatusRow(r.saleId, r.status)
                /\ th' = [th EXCEPT ![c] =
                            [r EXCEPT !.pc = IF TriggersRestore(r.existing, r.status)
                                             THEN "restoreFind" ELSE "fetch"]]
           ELSE /\ th' = [th EXCEPT ![c] = Finish(r, "Internal")]
                /\ UNCHANGED sales
    /\ UNCHANGED <<products, sale_items, stock0, before, users, sessions, ctx>>

\* restoreProductStock: FindSaleItems; its failure is logged by the caller
RestoreFind(c, ok) ==
    /\ th[c].op = "UpdateSaleStatus" /\ th[c].pc = "restoreFind"
    /\ LET r == th[c]
           items == ItemsOfSale(r.saleId)
       IN  th' = [th EXCEPT ![c] =
                    IF ok /\ Len(items) > 0
                    THEN [r EXCEPT !.saleItems = items, !.i = 1, !.pc = "restoreRead"]
                    ELSE [r EXCEPT !.pc = "fetch"]]
    /\ UNCHANGED <<products, sales, sale_items, stock0, before, users, sessions, ctx>>

\* faulty variant: a failed restoration of one item ends the loop
SkipItemAndStop(r, items) == [r EXCEPT !.skipped = @ \cup {r.i}, !.pc = "fetch", !.i = 0]

\* the restoration of item i has failed: the error is logged and the loop goes
\* on with the next item; skipped is history, the items that were not restored
SkipItem(r, items) == AfterItem([r EXCEPT !.skipped = @ \cup {r.i}], items)

\* restore loop, first statement: FindByID; a failure is logged and skipped
RestoreRead(c, ok) ==
    /\ th[c].op = "UpdateSaleStatus" /\ th[c].pc = "restoreRead"
    /\ LET r == th[c]
           product == FindByID(r.saleItems[r.i].product)
       IN  th' = [th EXCEPT ![c] =
                    IF ok /\ product.found
                    THEN [r EXCEPT !.read = product.stock, !.pc = "restoreWrite"]
                    ELSE SkipItem(r, r.saleItems)]
    /\ UNCHANGED <<products, sales, sale_items, stock0, before, users, sessions, ctx>>

\* restore loop, second statement: UpdateStock with the stock computed from
\* the value read before
RestoreWrite(c, ok) ==
    /\ th[c].op = "UpdateSaleStatus" /\ th[c].pc = "restoreWrite"
    /\ LET r == th[c]
           item == r.saleItems[r.i]
           newStock == RestoredStock(r.read, item.quantity)
           written == ok /\ newStock >= 0 /\ ~products[item.product].deleted
       IN  /\ products' = IF ok THEN UpdateStock(item.product, newStock) ELSE products
           /\ th' = [th EXCEPT ![c] = IF written THEN AfterItem(r, r.saleItems)
                                      ELSE SkipItem(r, r.saleItems)]
    /\ UNCHANGED <<sales, sale_items, stock0, before, users, sessions, ctx>>

\* GetSaleByID: FindSaleByID, then getSaleWithItems
GetSaleByID(c, id, ok) ==
    /\ th[c].pc = "idle"
    /\ th' = [th EXCEPT ![c] =
                LET r == [Idle EXCEPT !.op = "GetSaleByID", !.saleId = id]
                IN  IF ok /\ SaleExists(id) THEN [r EXCEPT !.pc = "fetch"]
                    ELSE Finish(r, "NotFound")]
    /\ UNCHANGED <<products, sales, sale_items, stock0, before, users, sessions, ctx>>

-----------------------------------------------------------------------------
(* GetSalesReport and GetRevenueReport *)

\* time.Parse("2006-01-02", ...) gives midnight of the date, and the query has
\* created_at BETWEEN $1 AND $2
CreatedBetween(createdAt, startDate, endDate) ==
    /\ createdAt.day >= startDate
    /\ createdAt.day < endDate \/ (createdAt.day = endDate /\ ~createdAt.late)

\* WHERE deleted_at IS NULL AND status = 'completed' AND created_at BETWEEN $1 AND $2
ReportRows(startDate, endDate) ==
    {id \in 1..Len(sales) :
        /\ sales[id].status = SaleStatusCompleted
        /\ CreatedBetween(sales[id].created_at, startDate, endDate)}

RECURSIVE SumTotalAmount(_)
\* SUM(total_amount) over a set of sales
SumTotalAmount(rows) ==
    IF rows = {} THEN 0
    ELSE LET id == CHOOSE x \in rows : TRUE
         IN  sales[id].total_amount + SumTotalAmount(rows \ {id})

RECURSIVE SumItemsSold(_)
\* SUM((SELECT SUM(quantity) FROM sale_items WHERE sale_id = sales.id))
SumItemsSold(rows) ==
    IF rows = {} THEN 0
    ELSE LET id == CHOOSE x \in rows : TRUE
         IN  SumQuantity(ItemsOfSale(id)) + SumItemsSold(rows \ {id})

RECURSIVE GCD(_, _)
GCD(a, b) == IF b = 0 THEN a ELSE GCD(b, a % b)

\* a quotient of two amounts, kept exact as a fraction in lowest terms
Ratio(a, b) == [num |-> a \div GCD(a, b), den |-> b \div GCD(a, b)]

\* faulty variant: an average that divides by the count also when it is zero
AverageSaleUnguarded(totalRevenue, totalSales) ==
    [num |-> totalRevenue, den |-> totalSales]

\* CASE WHEN COUNT(*) > 0 THEN COALESCE(SUM(total_amount), 0) / COUNT(*) ELSE 0 END
AverageSale(totalRevenue, totalSales) ==
    IF totalSales > 0 THEN Ratio(totalRevenue, totalSales) ELSE Ratio(0, 1)

\* the summary query over the rows in scope
SalesReport(startDate, endDate) ==
    LET rows == ReportRows(startDate, endDate)
    IN  [total_sales |-> Cardinality(rows),
         total_revenue |-> SumTotalAmount(rows),
         total_items_sold |-> SumItemsSold(rows),
         average_sale |-> AverageSale(SumTotalAmount(rows), Cardinality(rows))]

\* saleService.GetSalesReport: the date order is checked, then the query runs
GetSalesReport(c, startDate, endDate, ok) ==
    /\ th[c].pc = "idle"
    /\ th' = [th EXCEPT ![c] =
                LET r == [Idle EXCEPT !.op = "GetSalesReport", !.startDate = startDate,
                                      !.endDate = endDate]
                IN  IF startDate > endDate THEN Finish(r, "InvalidRequest")
                    ELSE IF ~ok THEN Finish(r, "Internal")
                    ELSE Finish([r EXCEPT !.resp = SalesReport(startDate, endDate)], "ok")]
    /\ UNCHANGED <<products, sales, sale_items, stock0, before, users, sessions, ctx>>

\* maxRange := 365 * 24 * time.Hour, in days
MaxRange == 365

\* the dates a report is asked for: the days on which sales are made and a
\* day more than a year after the first
ReportDates == Days \cup {MaxDay + MaxRange}

\* reportService.GetSalesReport: the date order and the length of the range
\* are checked, then reportRepo.GetSalesReport runs the summary query
ReportGetSalesReport(c, startDate, endDate, ok) ==
    /\ th[c].pc = "idle"
    /\ th' = [th EXCEPT ![c] =
                LET r == [Idle EXCEPT !.op = "ReportGetSalesReport",
                                      !.startDate = startDate, !.endDate = endDate]
                IN  IF startDate > endDate THEN Finish(r, "InvalidRequest")
                    ELSE IF endDate - startDate > MaxRange THEN Finish(r, "InvalidRequest")
                    ELSE IF ~ok THEN Finish(r, "Internal")
                    ELSE Finish([r EXCEPT !.resp = SalesReport(startDate, endDate)], "ok")]
    /\ UNCHANGED <<products, sales, sale_items, stock0, before, users, sessions, ctx>>

\* group_by has validate:"omitempty,oneof=day week month"
ValidGroupBy(groupBy) == groupBy = "" \/ groupBy \in {"day", "week", "month"}

\* the values of the group_by query parameter that are tried
GroupByInputs == {"", "day", "week", "month", "year"}

\* the calendar month a day falls in
MonthOf(day) == (day - 1) \div DaysPerMonth + 1

\* DATE(created_at) of a sale
DayOf(day) == day

\* the column the period query groups by
PeriodOf(groupBy, day) == IF groupBy = "month" THEN MonthOf(day) ELSE DayOf(day)

RECURSIVE PeriodRevenue(_, _, _)
\* GROUP BY period ... ORDER BY period ASC over the rows in scope, for the
\* periods 1..n: one row per period that has a sale, with COUNT(*) and
\* SUM(total_amount)
PeriodRevenue(rows, groupBy, n) ==
    IF n = 0 THEN <<>>
    ELSE LET group == {id \in rows : PeriodOf(groupBy, sales[id].created_at.day) = n}
         IN  PeriodRevenue(rows, groupBy, n - 1) \o
               (IF group = {} THEN <<>>
                ELSE <<[period |-> n, sales_count |-> Cardinality(group),
                        revenue |-> SumTotalAmount(group)]>>)

\* reportRepo.GetRevenueReport: three fields of the summary are copied, then
\* the period query runs for day and month; when it fails the summary is
\* returned alone
RevenueReport(startDate, endDate, groupBy, okPeriod) ==
    LET summary == SalesReport(startDate, endDate)
        rows == ReportRows(startDate, endDate)
        grouped(name) == groupBy = name /\ okPeriod
    IN  [total_revenue |-> summary.total_revenue,
         total_sales |-> summary.total_sales,
         average_sale |-> summary.average_sale,
         daily_revenue |-> IF grouped("day") THEN PeriodRevenue(rows, "day", MaxDay)
                           ELSE <<>>,
         weekly_revenue |-> <<>>,
         monthly_revenue |-> IF grouped("month")
                             THEN PeriodRevenue(rows, "month", MonthOf(MaxDay))
                             ELSE <<>>]

\* reportService.GetRevenueReport: the request is validated, the date order is
\* checked, then the repository is called
GetRevenueReport(c, startDate, endDate, groupBy, ok, okPeriod) ==
    /\ th[c].pc = "idle"
    /\ th' = [th EXCEPT ![c] =
                LET r == [Idle EXCEPT !.op = "GetRevenueReport", !.startDate = startDate,
                                      !.endDate = endDate, !.groupBy = groupBy]
                IN  IF ~ValidGroupBy(groupBy) THEN Finish(r, "InvalidRequest")
                    ELSE IF startDate > endDate THEN Finish(r, "InvalidRequest")
                    ELSE IF ~ok THEN Finish(r, "Internal")
                    ELSE Finish([r EXCEPT !.resp = RevenueReport(startDate, endDate,
                                                                 groupBy, okPeriod)], "ok")]
    /\ UNCHANGED <<products, sales, sale_items, stock0, before, users, sessions, ctx>>

-----------------------------------------------------------------------------
(* productService.Update, UpdateStock and Delete *)

\* faulty variant: optional fields are not validated
ValidOptionalAny(ptr) == TRUE

\* an optional field of UpdateProductRequest is a pointer: {} is nil, {v} is &v;
\* validate:"omitempty,min=0"
ValidOptional(ptr) == \A v \in ptr : v >= 0

\* productToUpdate after the request's fields are copied over the row read
MergedRow(product, unitPrice, stockQuantity) ==
    [stock |-> IF stockQuantity = {} THEN product.stock
               ELSE CHOOSE v \in stockQuantity : TRUE,
     price |-> IF unitPrice = {} THEN product.price
               ELSE CHOOSE v \in unitPrice : TRUE]

\* Update: validation, FindByID and the merge; the row is written by the next
\* statement only when a field differs
BeginUpdateProduct(c, id, unitPrice, stockQuantity) ==
    /\ th[c].pc = "idle"
    /\ LET r == [Idle EXCEPT !.op = "UpdateProduct", !.target = id]
           product == FindByID(id)
           row == MergedRow(product, unitPrice, stockQuantity)
       IN  th' = [th EXCEPT ![c] =
                    IF ~ValidOptional(unitPrice) \/ ~ValidOptional(stockQuantity)
                    THEN Finish(r, "InvalidRequest")
                    ELSE IF ~product.found THEN Finish(r, "NotFound")
                    ELSE IF row.stock # product.stock \/ row.price # product.price
                    THEN [r EXCEPT !.row = row, !.pc = "writeProduct"]
                    ELSE Finish(r, "ok")]
    /\ UNCHANGED <<products, sales, sale_items, stock0, before, users, sessions, ctx>>

\* repo.Product.Update: the whole row, stock_quantity included, is written
WriteProduct(c, ok) ==
    /\ th[c].op = "UpdateProduct" /\ th[c].pc = "writeProduct"
    /\ LET r == th[c]
       IN  IF ok /\ ~products[r.target].deleted
           THEN /\ products' = UpdateProductRow(r.target, r.row)
                /\ th' = [th EXCEPT ![c] = Finish(r, "ok")]
           ELSE /\ th' = [th EXCEPT ![c] = Finish(r, "Internal")]
                /\ UNCHANGED products
    /\ UNCHANGED <<sales, sale_items, stock0, before, users, sessions, ctx>>

\* convertToResponse: the product response with its calculated flag,
\* isLowStock := p.StockQuantity <= p.MinStockLevel
convertToResponse(id) ==
    [id |-> id, stock_quantity |-> products[id].stock,
     min_stock_level |-> MinStockLevel,
     is_low_stock |-> products[id].stock <= MinStockLevel]

\* productRepo.FindLowStock: WHERE deleted_at IS NULL AND stock_quantity <=
\* min_stock_level AND stock_quantity > 0; the rows, without their order
LowStockRows ==
    {id \in Products : /\ ~products[id].deleted
                       /\ products[id].stock <= MinStockLevel
                       /\ products[id].stock > 0}

\* productService.FindLowStock: the query, then every row is converted
FindLowStock(c, ok) ==
    /\ th[c].pc = "idle"
    /\ th' = [th EXCEPT ![c] =
                LET r == [Idle EXCEPT !.op = "FindLowStock"]
                IN  IF ~ok THEN Finish(r, "Internal")
                    ELSE Finish([r EXCEPT !.resp = {convertToResponse(id) : id \in LowStockRows}],
                                "ok")]
    /\ UNCHANGED <<products, sales, sale_items, stock0, before, users, sessions, ctx>>

\* validate:"required,min=0" on an int: zero is "missing", so 0 is refused
ValidStockRequest(quantity) == quantity # 0 /\ quantity >= 0

\* UpdateStock (PUT /api/products/{id}/stock): validation, FindByID, UpdateStock
SetStock(id, quantity, ok) ==
    /\ ValidStockRequest(quantity)
    /\ ok /\ FindByID(id).found
    /\ products' = UpdateStock(id, quantity)
    /\ UNCHANGED <<sales, sale_items, th, stock0, users, sessions, ctx>>

\* Delete: FindByID, then the soft delete
DeleteProduct(id, ok) ==
    /\ ok /\ FindByID(id).found
    /\ products' = DeleteProductRow(id)
    /\ UNCHANGED <<sales, sale_items, th, stock0, users, sessions, ctx>>

-----------------------------------------------------------------------------
(* authService, the Auth, RequireRole and AllowSelfOrAdmin middleware, the  *)
(* user service and the sale endpoints behind the middleware                *)

\* authService.ValidateToken: the session, its user, and the user being
\* active; the user that is stored in the request context, or none
ValidateToken(token) ==
    IF /\ FindByToken(token)
       /\ UserExists(sessions[token].user_id)
       /\ users[sessions[token].user_id].is_active
    THEN [id |-> sessions[token].user_id,
          role |-> users[sessions[token].user_id].role,
          token |-> token]
    ELSE NoUser

\* authService.Login: FindByEmail, the password, is_active, then the session
\* is inserted under a fresh token
Login(email, passwordOk, ok) ==
    /\ \E id \in UsersByEmail(email) :
          /\ passwordOk /\ users[id].is_active /\ ok
          /\ sessions' = Append(sessions, NewSession(id))
    /\ UNCHANGED <<products, sales, sale_items, th, stock0, before, users, ctx>>

\* the clock passes expires_at of a session
Expire(token) ==
    /\ token \in 1..Len(sessions) /\ ~sessions[token].expired
    /\ sessions' = [sessions EXCEPT ![token].expired = TRUE]
    /\ UNCHANGED <<products, sales, sale_items, th, stock0, before, users, ctx>>

\* the Auth middleware: ValidateToken, then the user is put in the context
\* of the request, or the request is answered 401
Auth(c, token) ==
    /\ th[c].pc = "idle" /\ ctx[c] = NoUser
    /\ LET user == ValidateToken(token)
       IN  IF user = NoUser
           THEN /\ th' = [th EXCEPT ![c] =
                            Finish([Idle EXCEPT !.op = "Auth", !.req = [token |-> token]],
                                   "Unauthorized")]
                /\ UNCHANGED ctx
           ELSE /\ ctx' = [ctx EXCEPT ![c] = user]
                /\ UNCHANGED th
    /\ UNCHANGED <<products, sales, sale_items, stock0, before, users, sessions>>

\* POST /api/auth/logout behind Auth: authService.Logout revokes the session
\* of the token; no row affected is an error
Logout(c, ok) ==
    /\ th[c].pc = "idle" /\ ctx[c] # NoUser
    /\ LET token == ctx[c].token
           r == [Idle EXCEPT !.op = "Logout", !.req = [token |-> token]]
           revoked == ok /\ token \in 1..Len(sessions) /\ ~sessions[token].revoked
       IN  /\ sessions' = IF revoked THEN DeleteByToken(token) ELSE sessions
           /\ th' = [th EXCEPT ![c] = Finish(r, IF revoked THEN "ok" ELSE "Internal")]
    /\ UNCHANGED <<products, sales, sale_items, stock0, before, users, ctx>>

\* authService.LogoutAllUserSessions: succeeds whatever the number of rows
LogoutAllUserSessions(c, userID, ok) ==
    /\ th[c].pc = "idle"
    /\ sessions' = IF ok THEN DeleteByUserID(userID) ELSE sessions
    /\ th' = [th EXCEPT ![c] =
                Finish([Idle EXCEPT !.op = "LogoutAllUserSessions",
                                    !.req = [user_id |-> userID]],
                       IF ok THEN "ok" ELSE "Internal")]
    /\ UNCHANGED <<products, sales, sale_items, stock0, before, users, ctx>>

\* RequireRole(allowedRoles...)
RequireRole(role, allowedRoles) == role \in allowedRoles

IsStaff(role) == role = RoleStaff

\* User.CanManageUsers
CanManageUsers(role) == role = RoleSuperAdmin \/ role = RoleAdmin

\* User.CanCreateUserWithRole
CanCreateUserWithRole(creator, role) ==
    \/ creator = RoleSuperAdmin
    \/ creator = RoleAdmin /\ role # RoleSuperAdmin

\* AllowSelfOrAdmin: the id of the URL is compared with the id of the current
\* user, whatever table the route is about
AllowSelfOrAdmin(currentUser, requestedID) ==
    UserUUID(currentUser.id) = requestedID \/ CanManageUsers(currentUser.role)

\* POST /api/admin/users behind Auth and RequireRole(admin, super_admin):
\* validation, FindByEmail, then the INSERT
CreateUser(c, email, role, ok) ==
    /\ th[c].pc = "idle" /\ ctx[c] # NoUser
    /\ LET r == [Idle EXCEPT !.op = "CreateUser", !.req = [email |-> email, role |-> role]]
           outcome ==
               IF ~RequireRole(ctx[c].role, {RoleAdmin, RoleSuperAdmin}) THEN "Forbidden"
               ELSE IF role \notin Roles THEN "InvalidRequest"
               ELSE IF UsersByEmail(email) # {} THEN "Conflict"
               ELSE IF ~ok \/ ~EmailFree(email) THEN "Internal"
               ELSE "ok"
       IN  /\ users' = IF outcome = "ok"
                       THEN Append(users, [email |-> email, role |-> role,
                                           is_active |-> TRUE, deleted |-> FALSE])
                       ELSE users
           /\ th' = [th EXCEPT ![c] = Finish(r, outcome)]
    /\ UNCHANGED <<products, sales, sale_items, stock0, before, sessions, ctx>>

\* userToUpdate after the optional role and is_active of the request are
\* copied over the row read; {} is nil, {v} is &v
MergedUser(row, role, isActive) ==
    [row EXCEPT !.role = IF role = {} THEN @ ELSE CHOOSE v \in role : TRUE,
                !.is_active = IF isActive = {} THEN @ ELSE CHOOSE v \in isActive : TRUE]

\* PUT /api/users/{id} behind Auth and AllowSelfOrAdmin: userService.Update
\* reads the row, copies the fields and writes the row when one differs; the
\* CHECK constraint on role refuses an unknown role
UpdateUser(c, id, role, isActive, ok) ==
    /\ th[c].pc = "idle" /\ ctx[c] # NoUser
    /\ LET r == [Idle EXCEPT !.op = "UpdateUser",
                             !.req = [id |-> id, role |-> role, is_active |-> isActive]]
           n == UserIndex(id)
           row == MergedUser(users[n], role, isActive)
           outcome ==
               IF ~AllowSelfOrAdmin(ctx[c], id) THEN "Forbidden"
               ELSE IF ~UserExists(n) THEN "NotFound"
               ELSE IF row = users[n] THEN "ok"
               ELSE IF ~ok \/ row.role \notin Roles THEN "Internal"
               ELSE "written"
       IN  /\ users' = IF outcome = "written" THEN [users EXCEPT ![n] = row] ELSE users
           /\ th' = [th EXCEPT ![c] =
                        Finish(r, IF outcome = "written" THEN "ok" ELSE outcome)]
    /\ UNCHANGED <<products, sales, sale_items, stock0, before, sessions, ctx>>

\* DELETE /api/admin/users/{id} behind Auth and RequireRole: FindByID, then
\* the soft delete
DeleteUser(c, id, ok) ==
    /\ th[c].pc = "idle" /\ ctx[c] # NoUser
    /\ LET r == [Idle EXCEPT !.op = "DeleteUser", !.req = [id |-> id]]
           n == UserIndex(id)
           outcome ==
               IF ~RequireRole(ctx[c].role, {RoleAdmin, RoleSuperAdmin}) THEN "Forbidden"
               ELSE IF ~UserExists(n) THEN "NotFound"
               ELSE IF ~ok THEN "Internal"
               ELSE "ok"
       IN  /\ users' = IF outcome = "ok" THEN [users EXCEPT ![n].deleted = TRUE] ELSE users
           /\ th' = [th EXCEPT ![c] = Finish(r, outcome)]
    /\ UNCHANGED <<products, sales, sale_items, stock0, before, sessions, ctx>>

\* faulty variant: the limit parameter is not checked by the handler
ValidLimitAny(limit) == TRUE

\* SaleHandler.FindAll: l > 0 && l <= 100, for a limit that is given
ValidLimit(limit) == \A l \in limit : l > 0 /\ l <= MaxLimit

\* SaleHandler.FindAll: p > 0, for a page that is given
ValidPage(page) == \A p \in page : p > 0

\* utils.NewPagination: a page below 1 becomes 1, a limit below 1 the
\* default and a limit above the maximum the maximum
NewPagination(page, limit) ==
    [page |-> IF page < 1 THEN 1 ELSE page,
     limit |-> IF limit < 1 THEN DefaultLimit
               ELSE IF limit > MaxLimit THEN MaxLimit ELSE limit]

\* Pagination.Offset
Offset(pagination) == (pagination.page - 1) * pagination.limit

\* Pagination.SetTotal
SetTotal(pagination, total) ==
    [page |-> pagination.page, limit |-> pagination.limit, total |-> total,
     total_pages |-> (total + pagination.limit - 1) \div pagination.limit]

\* faulty variant: no request is filtered
OwnerFilterNone(user) == {}

\* the filter of SaleHandler.FindAll: {} for admin and super_admin, the id of
\* the user for staff
OwnerFilter(user) == IF ~IsStaff(user.role) THEN {} ELSE {user.id}

\* the rows the two queries select: WHERE user_id = $1 when the filter is set
FilteredSales(userID) ==
    {id \in 1..Len(sales) : \A u \in userID : sales[id].user_id = u}

RECURSIVE NewestFirst(_, _)
\* ORDER BY created_at DESC over a set of sales among the sales 1..n; a sale
\* made later has the larger id
NewestFirst(rows, n) ==
    IF n = 0 THEN <<>>
    ELSE (IF n \in rows THEN <<n>> ELSE <<>>) \o NewestFirst(rows, n - 1)

\* saleRepo.FindAllSales: ... ORDER BY created_at DESC LIMIT $2 OFFSET $3
FindAllSales(userID, limit, offset) ==
    LET ordered == NewestFirst(FilteredSales(userID), Len(sales))
    IN  [k \in 1..IF Len(ordered) - offset < 0 THEN 0
                   ELSE IF Len(ordered) - offset < limit THEN Len(ordered) - offset
                   ELSE limit |->
            [id |-> ordered[offset + k], user_id |-> sales[ordered[offset + k]].user_id]]

\* saleRepo.CountAllSales
CountAllSales(userID) == Cardinality(FilteredSales(userID))

\* GET /api/sales behind Auth: SaleHandler.FindAll parses page and limit and
\* sets the filter, saleService.GetAllSales runs the two queries
GetAllSales(c, page, limit, ok) ==
    /\ th[c].pc = "idle" /\ ctx[c] # NoUser
    /\ th' = [th EXCEPT ![c] =
                LET r == [Idle EXCEPT !.op = "GetAllSales",
                                      !.req = [page |-> page, limit |-> limit]]
                    pagination ==
                        NewPagination(IF page = {} THEN 1 ELSE CHOOSE p \in page : TRUE,
                                      IF limit = {} THEN DefaultLimit
                                      ELSE CHOOSE l \in limit : TRUE)
                    userID == OwnerFilter(ctx[c])
                IN  IF ~ValidPage(page) \/ ~ValidLimit(limit) THEN Finish(r, "InvalidRequest")
                    ELSE IF ~ok THEN Finish(r, "Internal")
                    ELSE Finish([r EXCEPT !.resp =
                                    [sales |-> FindAllSales(userID, pagination.limit,
                                                            Offset(pagination)),
                                     pagination |-> SetTotal(pagination,
                                                             CountAllSales(userID))]],
                                "ok")]
    /\ UNCHANGED <<products, sales, sale_items, stock0, before, users, sessions, ctx>>

\* the answer 403 of AllowSelfOrAdmin on a sale route
Forbidden(c, op, id) ==
    /\ th[c].pc = "idle"
    /\ th' = [th EXCEPT ![c] =
                Finish([Idle EXCEPT !.op = op, !.saleId = SaleIndex(id), !.req = [id |-> id]],
                       "Forbidden")]
    /\ UNCHANGED <<products, sales, sale_items, stock0, before, users, sessions, ctx>>

\* GET /api/sales/{id} behind Auth and AllowSelfOrAdmin
SaleFindByID(c, id, ok) ==
    /\ ctx[c] # NoUser
    /\ IF AllowSelfOrAdmin(ctx[c], id) THEN GetSaleByID(c, SaleIndex(id), ok)
       ELSE Forbidden(c, "GetSaleByID", id)

\* PUT /api/sales/{id}/status behind Auth and AllowSelfOrAdmin
SaleUpdateStatus(c, id, status) ==
    /\ ctx[c] # NoUser
    /\ IF AllowSelfOrAdmin(ctx[c], id) THEN BeginUpdateSaleStatus(c, SaleIndex(id), status)
       ELSE Forbidden(c, "UpdateSaleStatus", id)

\* the response is written and the context of the request is dropped
EndRequest ==
    /\ Quiescent /\ ~AllIdle
    /\ th' = [c \in Clients |-> Idle]
    /\ ctx' = [c \in Clients |-> NoUser]
    /\ before' = Tables
    /\ UNCHANGED <<products, sales, sale_items, stock0, users, sessions>>

-----------------------------------------------------------------------------
(* Specifications *)

OptionalStocks == {{}} \cup {{v} : v \in -1..MaxStock}
OptionalPrices == {{}} \cup {{v} : v \in Prices}

\* the model stops admitting sales at maxSales rows, and a status update that
\* could lift a stock above StockCap; neither limit is the program's
CreateRequests(c, carts, maxSales) ==
    \E cart \in carts : Len(sales) < maxSales /\ BeginCreateSale(c, cart)

StatusRequests(c, statuses) ==
    \E id \in 1..(Len(sales) + 1), status \in statuses :
        /\ \A p \in Products :
              products[p].stock + QtyOfProduct(ItemsOfSale(id), p) <= StockCap
        /\ BeginUpdateSaleStatus(c, id, status)

ProductRequests(c, unitPrices, stockQuantities) ==
    \E id \in Products, unitPrice \in unitPrices, stockQuantity \in stockQuantities :
        BeginUpdateProduct(c, id, unitPrice, stockQuantity)

TablesAfter == [products |-> products', sales |-> sales', sale_items |-> sale_items']

\* a single-statement request is served between two rounds
Direct(ok) ==
    /\ AllIdle
    /\ \/ \E id \in Products, quantity \in 0..MaxStock : SetStock(id, quantity, ok)
       \/ \E id \in Products : DeleteProduct(id, ok)
    /\ before' = TablesAfter

\* an admitted request executes its next statement; ok tells whether the
\* storage layer carries the statement out
CreateSteps(c, ok) ==
    \/ CheckItem(c, ok)
    \/ InsertSale(c, ok)
    \/ InsertItems(c, ok)
    \/ DeductRead(c, ok)
    \/ DeductWrite(c, ok)
    \/ FetchSale(c, ok)

StatusSteps(c, ok) ==
    \/ FindSale(c, ok)
    \/ WriteStatus(c, ok)
    \/ RestoreFind(c, ok)
    \/ RestoreRead(c, ok)
    \/ RestoreWrite(c, ok)

\* Requests are served in rounds: the requests of a round run concurrently,
\* statement by statement, and the next round starts when all have answered.

\* rounds of concurrent requests that create and cancel sales of one product,
\* over a storage layer that does not fail
OneProductCarts == {<<[product |-> "p1", quantity |-> q]>> : q \in 1..MaxQty}

InitOneProduct == Init /\ products["p2"].stock = 0

Next ==
    \/ \E c \in Clients :
          \/ CreateRequests(c, OneProductCarts, MaxSales)
          \/ StatusRequests(c, {SaleStatusCancelled})
          \/ CreateSteps(c, TRUE)
          \/ StatusSteps(c, TRUE)
    \/ EndRound

Spec == InitOneProduct /\ [][Next]_vars

\* one request at a time over a storage layer that does not fail
NextSerial ==
    \/ AllIdle /\ CreateRequests(1, Carts, MaxSerialSales)
    \/ AllIdle /\ StatusRequests(1, StatusInputs)
    \/ AllIdle /\ ProductRequests(1, {{}}, OptionalStocks)
    \/ AllIdle /\ FindLowStock(1, TRUE)
    \/ Direct(TRUE)
    \/ CreateSteps(1, TRUE)
    \/ StatusSteps(1, TRUE)
    \/ WriteProduct(1, TRUE)
    \/ EndRound

SpecSerial == Init /\ [][NextSerial]_vars

\* one request at a time over a storage layer whose statements may fail
NextFault ==
    \/ AllIdle /\ CreateRequests(1, Carts, MaxSerialSales)
    \/ AllIdle /\ StatusRequests(1, StatusInputs)
    \/ Direct(TRUE)
    \/ \E ok \in BOOLEAN : CreateSteps(1, ok) \/ StatusSteps(1, ok)
    \/ EndRound

SpecFault == Init /\ [][NextFault]_vars

\* one request at a time, sales and price changes
NextPrice ==
    \/ AllIdle /\ CreateRequests(1, Carts, MaxSales)
    \/ AllIdle /\ ProductRequests(1, OptionalPrices, {{}})
    \/ CreateSteps(1, TRUE)
    \/ WriteProduct(1, TRUE)
    \/ EndRound

SpecPrice == Init /\ [][NextPrice]_vars

\* one request at a time: sales, their status, reads of sales, and price
\* changes, stock changes and deletions of products
NextHistory ==
    \/ AllIdle /\ CreateRequests(1, Carts, MaxSerialSales)
    \/ AllIdle /\ StatusRequests(1, Statuses)
    \/ AllIdle /\ ProductRequests(1, OptionalPrices, {{}})
    \/ AllIdle /\ \E id \in 1..(Len(sales) + 1) : GetSaleByID(1, id, TRUE)
    \/ Direct(TRUE)
    \/ CreateSteps(1, TRUE)
    \/ StatusSteps(1, TRUE)
    \/ WriteProduct(1, TRUE)
    \/ EndRound

\* the catalogue starts fully stocked
InitFullStock == Init /\ \A p \in Products : products[p].stock = MaxStock

SpecHistory == InitFullStock /\ [][NextHistory]_vars

\* one request at a time over a storage layer that fails only in the
\* statements of the restore loop
NextRestoreFault ==
    \/ AllIdle /\ CreateRequests(1, Carts, MaxSerialSales)
    \/ AllIdle /\ StatusRequests(1, Statuses)
    \/ Direct(TRUE)
    \/ CreateSteps(1, TRUE)
    \/ FindSale(1, TRUE)
    \/ WriteStatus(1, TRUE)
    \/ RestoreFind(1, TRUE)
    \/ \E ok \in BOOLEAN : RestoreRead(1, ok) \/ RestoreWrite(1, ok)
    \/ EndRound

SpecRestoreFault == Init /\ [][NextRestoreFault]_vars

\* one request at a time under a clock that is read at any instant not before
\* the newest sale: sales of one product and their status
NextLedger ==
    \/ AllIdle /\ CreateRequests(1, OneProductCarts, MaxSales)
    \/ AllIdle /\ StatusRequests(1, Statuses)
    \/ AllIdle /\ \E startDate, endDate \in ReportDates :
                      GetSalesReport(1, startDate, endDate, TRUE)
    \/ /\ th[1].op = "GetSalesReport" /\ th[1].pc = "done" /\ th[2].pc = "idle"
       /\ ReportGetSalesReport(2, th[1].startDate, th[1].endDate, TRUE)
    \/ AllIdle /\ \E startDate, endDate \in Days, groupBy \in GroupByInputs, okPeriod \in BOOLEAN :
                      GetRevenueReport(1, startDate, endDate, groupBy, TRUE, okPeriod)
    \/ CheckItem(1, TRUE)
    \/ \E now \in Instants : InsertSaleAt(1, TRUE, now)
    \/ InsertItems(1, TRUE)
    \/ DeductRead(1, TRUE)
    \/ DeductWrite(1, TRUE)
    \/ FetchSale(1, TRUE)
    \/ StatusSteps(1, TRUE)
    \/ EndRound

SpecLedger == InitFullStock /\ [][NextLedger]_vars

\* the page and limit query parameters that are tried: {} is a missing one
PageInputs == {{}, {0}, {1}, {2}}
LimitInputs == {{}, {-1}, {0}, {1}, {2}, {MaxLimit}, {MaxLimit + 1}}

\* the ids a client puts in the URL of a sale route: the sales, an id that
\* names no sale, and the client's own user id
SaleRouteIDs(c) == {SaleUUID(n) : n \in 1..(Len(sales) + 1)} \cup {UserUUID(ctx[c].id)}

\* the admin has created a second staff account and every account has logged
\* in once; the catalogue is fully stocked and no request is being served
InitAccess ==
    /\ products = [p \in Products |->
                      [stock |-> MaxStock, price |-> InitialPrice[p], deleted |-> FALSE]]
    /\ stock0 = [p \in Products |-> MaxStock]
    /\ sales = <<>>
    /\ sale_items = <<>>
    /\ th = [c \in Clients |-> Idle]
    /\ before = Tables
    /\ users = Append(SeedUsers, [email |-> MaxUsers, role |-> RoleStaff,
                                  is_active |-> TRUE, deleted |-> FALSE])
    /\ sessions = [token \in 1..MaxUsers |-> NewSession(token)]
    /\ ctx = [c \in Clients |-> NoUser]

\* one authenticated request at a time: sales are created, listed, read and
\* cancelled by the four accounts
NextAccess ==
    \/ AllIdle /\ \E token \in 1..Len(sessions) : Auth(1, token)
    \/ AllIdle /\ ctx[1] # NoUser /\ CreateRequests(1, OneProductCarts, MaxSales)
    \/ AllIdle /\ \E page \in PageInputs, limit \in LimitInputs :
                      GetAllSales(1, page, limit, TRUE)
    \/ AllIdle /\ \E id \in SaleRouteIDs(1) : SaleFindByID(1, id, TRUE)
    \/ AllIdle /\ \E id \in SaleRouteIDs(1) : SaleUpdateStatus(1, id, SaleStatusCancelled)
    \/ CreateSteps(1, TRUE)
    \/ StatusSteps(1, TRUE)
    \/ EndRequest

SpecAccess == InitAccess /\ [][NextAccess]_vars

\* the optional role and is_active of PUT /api/users/{id}
OptionalRoles == {{}} \cup {{role} : role \in RoleInputs}
OptionalFlags == {{}, {TRUE}, {FALSE}}

\* the three seeded accounts have logged in once; no request is being served
InitUsers ==
    /\ products = [p \in Products |->
                      [stock |-> MaxStock, price |-> InitialPrice[p], deleted |-> FALSE]]
    /\ stock0 = [p \in Products |-> MaxStock]
    /\ sales = <<>>
    /\ sale_items = <<>>
    /\ th = [c \in Clients |-> Idle]
    /\ before = Tables
    /\ users = SeedUsers
    /\ sessions = [token \in 1..Len(SeedUsers) |-> NewSession(token)]
    /\ ctx = [c \in Clients |-> NoUser]

\* one authenticated request at a time: accounts are created, updated and
\* deleted
NextUsers ==
    \/ AllIdle /\ \E token \in 1..Len(sessions) : Auth(1, token)
    \/ \E email \in Emails, role \in RoleInputs :
          Len(users) < MaxUsers /\ CreateUser(1, email, role, TRUE)
    \/ \E n \in 1..MaxUsers, role \in OptionalRoles, isActive \in OptionalFlags :
          UpdateUser(1, UserUUID(n), role, isActive, TRUE)
    \/ \E n \in 1..MaxUsers : DeleteUser(1, UserUUID(n), TRUE)
    \/ EndRequest

SpecUsers == InitUsers /\ [][NextUsers]_vars

\* no account has logged in; no request is being served
InitSessions ==
    /\ products = [p \in Products |->
                      [stock |-> MaxStock, price |-> InitialPrice[p], deleted |-> FALSE]]
    /\ stock0 = [p \in Products |-> MaxStock]
    /\ sales = <<>>
    /\ sale_items = <<>>
    /\ th = [c \in Clients |-> Idle]
    /\ before = Tables
    /\ users = SeedUsers
    /\ sessions = <<>>
    /\ ctx = [c \in Clients |-> NoUser]

\* between two requests nothing is being served and no context is held
Between == AllIdle /\ \A c \in Clients : ctx[c] = NoUser

\* one request at a time: logins, logouts, expiry of sessions, and accounts
\* being deactivated, re-activated and deleted
NextSessions ==
    \/ Between /\ \E email \in Emails, passwordOk \in BOOLEAN :
                     Len(sessions) < MaxSessions /\ Login(email, passwordOk, TRUE)
    \/ Between /\ \E token \in 1..Len(sessions) : Expire(token)
    \/ Between /\ \E userID \in 1..Len(users) : LogoutAllUserSessions(1, userID, TRUE)
    \/ Between /\ \E token \in 1..MaxSessions : Auth(1, token)
    \/ Logout(1, TRUE)
    \/ \E n \in 1..Len(users), isActive \in OptionalFlags :
          UpdateUser(1, UserUUID(n), {}, isActive, TRUE)
    \/ \E n \in 1..Len(users) : DeleteUser(1, UserUUID(n), TRUE)
    \/ EndRequest

SpecSessions == InitSessions /\ [][NextSessions]_vars

-----------------------------------------------------------------------------
(* Properties *)

\* client c holds the answer of a request of kind op
Answered(c, op) == th[c].op = op /\ th[c].pc = "done"
CreatedOk(c) == Answered(c, "CreateSale") /\ th[c].result = "ok"

\* client c holds the successful answer of a request that moved a sale, which
\* was completed when the round began, to cancelled
CancelledOk(c) ==
    /\ Answered(c, "UpdateSaleStatus") /\ th[c].result = "ok"
    /\ th[c].status = SaleStatusCancelled
    /\ th[c].saleId \in 1..Len(before.sales)
    /\ before.sales[th[c].saleId].status = SaleStatusCompleted

FlooredAtZero(n) == IF n < 0 THEN 0 ELSE n

\* C1: when two concurrent CreateSale calls have both created their sale, the
\* quantity of every product in the line items of the two sales together is
\* at most the stock the product had before the calls started.
C1_NeverOversell ==
    \A c1, c2 \in Clients :
        (c1 # c2 /\ CreatedOk(c1) /\ CreatedOk(c2)) =>
            \A p \in Products :
                QtyOfProduct(ItemsOfSale(th[c1].saleId), p)
                    + QtyOfProduct(ItemsOfSale(th[c2].saleId), p)
                  <= before.products[p].stock

\* C3: every persisted sale that no CreateSale is still writing has at least
\* one persisted sale item, also after a statement of CreateSale has failed.
C3_NoHeaderWithoutItems ==
    \A id \in 1..Len(sales) :
        (\A c \in Clients : ~(th[c].op = "CreateSale" /\ th[c].pc = "insertItems"
                               /\ th[c].saleId = id))
            => Len(ItemsOfSale(id)) >= 1

\* C4: when CreateSale has answered with success, the stock of every product
\* is the stock before the call minus the quantity of the product in the
\* created sale, floored at 0.
C4_StockDeducted ==
    \A c \in Clients :
        CreatedOk(c) =>
            \A p \in Products :
                products[p].stock =
                    FlooredAtZero(before.products[p].stock
                                    - QtyOfProduct(ItemsOfSale(th[c].saleId), p))

\* C8: when a CreateSale and a cancellation of a completed sale run
\* concurrently and both succeed, the stock of every product is the stock
\* before the two calls minus the quantity sold plus the quantity restored;
\* when two cancellations of different completed sales run concurrently and
\* both succeed, it is the stock before plus both restored quantities.
C8_NoLostStockUpdate ==
    \A c1, c2 \in Clients : \A p \in Products :
        /\ (CreatedOk(c1) /\ CancelledOk(c2)) =>
              products[p].stock =
                  before.products[p].stock
                    - QtyOfProduct(ItemsOfSale(th[c1].saleId), p)
                    + QtyOfProduct(ItemsOfSale(th[c2].saleId), p)
        /\ (CancelledOk(c1) /\ CancelledOk(c2) /\ th[c1].saleId # th[c2].saleId) =>
              products[p].stock =
                  before.products[p].stock
                    + QtyOfProduct(ItemsOfSale(th[c1].saleId), p)
                    + QtyOfProduct(ItemsOfSale(th[c2].saleId), p)

\* client c holds the answer of a CreateSale whose cart has a line that asks
\* for more than the stock its product had when the request arrived
Overdrawn(c) ==
    /\ Answered(c, "CreateSale")
    /\ \E k \in 1..Len(th[c].cart) :
          th[c].cart[k].quantity > before.products[th[c].cart[k].product].stock

\* validate:"required,min=1,dive" and "required,min=1", restated for the claims
WellFormed(cart) == Len(cart) >= 1 /\ \A k \in 1..Len(cart) : cart[k].quantity >= 1

\* C2 (as stated): every CreateSale request with a line whose quantity exceeds
\* the product's stock fails with InsufficientStock and changes no table.
C2_OverdrawnFailsInsufficientStock ==
    \A c \in Clients :
        Overdrawn(c) => th[c].result = "InsufficientStock" /\ Tables = before

\* C2 (amended): every well-formed CreateSale request (non-empty cart, every
\* quantity at least 1) with a line whose quantity exceeds the product's stock
\* fails with InsufficientStock and changes no table: no sale, no sale item,
\* no stock.
C2_WellFormedOverdrawnFails ==
    \A c \in Clients :
        (Overdrawn(c) /\ WellFormed(th[c].cart)) =>
            th[c].result = "InsufficientStock" /\ Tables = before

\* a two-line cart whose first line is in stock and whose second is not has
\* been refused
C2_Witness ==
    \E c \in Clients :
        /\ Overdrawn(c) /\ WellFormed(th[c].cart) /\ Len(th[c].cart) = 2
        /\ th[c].cart[1].quantity <= before.products[th[c].cart[1].product].stock
        /\ th[c].cart[1].product # th[c].cart[2].product
        /\ th[c].result = "InsufficientStock"

\* C5: when CreateSale has answered with success, the total_amount of the sale
\* is the sum of quantity * unit_price over its items, the total_price of
\* every item is its quantity * unit_price, and the unit_price of every item
\* is the price the product had when the request was served.
C5_TotalIsSumOfLines ==
    \A c \in Clients :
        CreatedOk(c) =>
            LET sale == th[c].resp
            IN  /\ sale.total_amount = SumLineTotal(sale.items)
                /\ sale.total_amount = SumTotalPrice(sale.items)
                /\ sale.total_amount = sales[th[c].saleId].total_amount
                /\ Len(sale.items) = Len(th[c].cart)
                /\ \A k \in 1..Len(sale.items) :
                      /\ sale.items[k].total_price
                            = sale.items[k].quantity * sale.items[k].unit_price
                      /\ sale.items[k].unit_price
                            = before.products[sale.items[k].product].price

\* a sale of two lines of different products, one of quantity 2, has been
\* created after a price change
C5_Witness ==
    \E c \in Clients :
        /\ CreatedOk(c) /\ Len(th[c].resp.items) = 2
        /\ th[c].resp.items[1].product # th[c].resp.items[2].product
        /\ th[c].resp.items[1].quantity = 2
        /\ \E p \in Products : before.products[p].price # InitialPrice[p]

\* C6: the stock_quantity of every product is at least 0 in every reachable
\* state, after any sequence of sales, status updates with their stock
\* restoration, manual stock updates and product updates.
C6_StockNeverNegative == \A p \in Products : products[p].stock >= 0

\* a product update asking for a negative stock has been refused after a sale
\* with two lines of one product, the second deducted below zero and floored
C6_Witness ==
    /\ Answered(1, "UpdateProduct") /\ th[1].result = "InvalidRequest"
    /\ \E p \in Products :
          /\ products[p].stock = 0
          /\ QtyOfProduct(sale_items, p) > stock0[p]

\* client c holds the successful answer of an UpdateSaleStatus that found the
\* sale with status s and was asked for status t
Moved(c, s, t) ==
    /\ Answered(c, "UpdateSaleStatus") /\ th[c].result = "ok"
    /\ th[c].saleId \in 1..Len(before.sales)
    /\ before.sales[th[c].saleId].status = s
    /\ th[c].status = t

C9_OnlyCancelOfCompletedChangesStock ==
    \A c \in Clients :
        (/\ Answered(c, "UpdateSaleStatus")
         /\ ~(/\ th[c].saleId \in 1..Len(before.sales)
              /\ before.sales[th[c].saleId].status = SaleStatusCompleted
              /\ th[c].status = SaleStatusCancelled))
            => products = before.products

\* a cancelled sale with items has been cancelled once more
C9_Witness ==
    \E c \in Clients :
        /\ Moved(c, SaleStatusCancelled, SaleStatusCancelled)
        /\ Len(ItemsOfSale(th[c].saleId)) > 0
        /\ products = before.products

\* C10: an UpdateSaleStatus request for an existing sale and a status among
\* pending, completed and cancelled succeeds, whatever the current status of
\* the sale, and the persisted status of the sale is then the requested one.
C10_EveryTransitionAccepted ==
    \A c \in Clients :
        (/\ Answered(c, "UpdateSaleStatus")
         /\ th[c].saleId \in 1..Len(before.sales)
         /\ th[c].status \in Statuses)
            => /\ th[c].result = "ok"
               /\ sales[th[c].saleId].status = th[c].status
               /\ th[c].resp.status = th[c].status

\* a cancelled sale has been moved back to completed
C10_Witness ==
    \E c \in Clients :
        /\ Moved(c, SaleStatusCancelled, SaleStatusCompleted)
        /\ sales[th[c].saleId].status = SaleStatusCompleted

RECURSIVE SumRestored(_, _, _, _)
\* quantity of product p over the items k..Len(items) that are not in skipped
SumRestored(items, skipped, p, k) ==
    IF k > Len(items) THEN 0
    ELSE (IF items[k].product = p /\ k \notin skipped THEN items[k].quantity ELSE 0)
            + SumRestored(items, skipped, p, k + 1)

\* C11: a request that finds a sale completed and asks for cancelled succeeds
\* also when the product lookup or the stock write of some of the sale's
\* items fails: the sale is then cancelled, and the stock of every product is
\* its stock before the request plus the quantities of the items whose
\* restoration did not fail.
C11_BestEffortRestore ==
    \A c \in Clients :
        (/\ Answered(c, "UpdateSaleStatus")
         /\ th[c].saleId \in 1..Len(before.sales)
         /\ before.sales[th[c].saleId].status = SaleStatusCompleted
         /\ th[c].status = SaleStatusCancelled)
            => /\ th[c].result = "ok"
               /\ sales[th[c].saleId].status = SaleStatusCancelled
               /\ th[c].resp.status = SaleStatusCancelled
               /\ \A p \in Products :
                     products[p].stock =
                         before.products[p].stock
                           + SumRestored(ItemsOfSale(th[c].saleId), th[c].skipped, p, 1)

\* a sale of two products has been cancelled, the restoration of its first
\* item has failed on a product that is not deleted, and the stock of the
\* other product has been restored
C11_Witness ==
    \E c \in Clients :
        LET items == ItemsOfSale(th[c].saleId)
        IN  /\ Moved(c, SaleStatusCompleted, SaleStatusCancelled)
            /\ Len(items) = 2 /\ th[c].skipped = {1}
            /\ items[1].product # items[2].product
            /\ ~products[items[1].product].deleted
            /\ products[items[1].product].stock = before.products[items[1].product].stock
            /\ products[items[2].product].stock
                  = before.products[items[2].product].stock + items[2].quantity

\* every sale item and the total_amount of every sale are the same after a step
ItemsKept ==
    /\ Len(sale_items') >= Len(sale_items)
    /\ \A k \in 1..Len(sale_items) : sale_items'[k] = sale_items[k]
    /\ Len(sales') >= Len(sales)
    /\ \A id \in 1..Len(sales) : sales'[id].total_amount = sales[id].total_amount

\* the answer of a GetSaleByID carries the items and the total_amount as persisted
ReadShowsPersisted ==
    \A c \in Clients :
        (Answered(c, "GetSaleByID") /\ th[c].saleId \in 1..Len(sales)) =>
            /\ th[c].result = "ok"
            /\ th[c].resp.items = ItemsOfSale(th[c].saleId)
            /\ th[c].resp.total_amount = sales[th[c].saleId].total_amount
            /\ th[c].resp.total_amount = SumLineTotal(th[c].resp.items)

\* C12: no step of any operation (product price update, stock update, soft
\* delete, UpdateSaleStatus, a later CreateSale) changes the product,
\* quantity, unit_price or total_price of a persisted sale item or the
\* total_amount of a persisted sale, and GetSaleByID always answers with the
\* items as persisted, so with the unit price stored when the sale was made.
C12_ItemsNeverChange == [][ItemsKept]_vars /\ []ReadShowsPersisted

\* a sale has been read after the price of one of its products was changed:
\* the answer shows the old unit price
C12_Witness ==
    \E c \in Clients :
        /\ Answered(c, "GetSaleByID") /\ th[c].result = "ok"
        /\ Len(th[c].resp.items) >= 1
        /\ th[c].resp.items[1].unit_price = InitialPrice[th[c].resp.items[1].product]
        /\ products[th[c].resp.items[1].product].price
              # InitialPrice[th[c].resp.items[1].product]

\* line k of the cart fails the stock check against the tables as the request
\* found them
LineFails(cart, k) ==
    \/ before.products[cart[k].product].deleted
    \/ before.products[cart[k].product].stock < cart[k].quantity

\* C13: a well-formed CreateSale whose first failing line names a soft-deleted
\* product fails with NotFound, and one whose first failing line names a live
\* product with too little stock fails with InsufficientStock.
C13_NotFoundDistinctFromInsufficientStock ==
    \A c \in Clients :
        (Answered(c, "CreateSale") /\ WellFormed(th[c].cart)) =>
            \A k \in 1..Len(th[c].cart) :
                (LineFails(th[c].cart, k) /\ \A j \in 1..(k - 1) : ~LineFails(th[c].cart, j))
                    => th[c].result =
                          IF before.products[th[c].cart[k].product].deleted
                          THEN "NotFound" ELSE "InsufficientStock"

\* C14: a CreateSale request whose item list is empty or that has an item of
\* quantity 0 or less fails with InvalidRequest and changes no table: no sale,
\* no sale item, no stock.
C14_IllFormedCartRejected ==
    \A c \in Clients :
        (/\ Answered(c, "CreateSale")
         /\ \/ Len(th[c].cart) = 0
            \/ \E k \in 1..Len(th[c].cart) : th[c].cart[k].quantity <= 0)
            => th[c].result = "InvalidRequest" /\ Tables = before

\* a cart whose first line is in stock and whose second line has quantity 0
\* has been refused
C14_Witness ==
    \E c \in Clients :
        /\ Answered(c, "CreateSale") /\ Len(th[c].cart) = 2
        /\ th[c].cart[2].quantity = 0
        /\ th[c].cart[1].quantity >= 1
        /\ ~LineFails(th[c].cart, 1)
        /\ th[c].result = "InvalidRequest"

\* C15: an UpdateSaleStatus request with a status other than pending,
\* completed and cancelled fails with InvalidRequest, and one with a valid
\* status for a sale that does not exist fails with NotFound; in both cases no
\* table is changed: no status of a sale, no stock of a product.
C15_InvalidStatusAndMissingSaleRejected ==
    \A c \in Clients :
        Answered(c, "UpdateSaleStatus") =>
            /\ th[c].status \notin Statuses =>
                  th[c].result = "InvalidRequest" /\ Tables = before
            /\ (th[c].status \in Statuses /\ th[c].saleId \notin 1..Len(before.sales)) =>
                  th[c].result = "NotFound" /\ Tables = before

\* the cancellation of a sale that does not exist has been refused while a
\* completed sale with items exists
C15_Witness ==
    \E c \in Clients :
        /\ Answered(c, "UpdateSaleStatus") /\ th[c].result = "NotFound"
        /\ th[c].status = SaleStatusCancelled
        /\ th[c].saleId = Len(sales) + 1
        /\ \E id \in 1..Len(sales) :
              sales[id].status = SaleStatusCompleted /\ Len(ItemsOfSale(id)) > 0

\* an unknown status for an existing sale has been refused
C15_WitnessInvalid ==
    \E c \in Clients :
        /\ Answered(c, "UpdateSaleStatus") /\ th[c].result = "InvalidRequest"
        /\ th[c].saleId \in 1..Len(sales)

\* C16: no two persisted sales share an invoice number, and every well-formed
\* CreateSale whose lines are all in stock succeeds, its sale holding an
\* invoice number no other sale holds.
C16_InvoiceNumbersUnique ==
    /\ \A i, j \in 1..Len(sales) :
          i # j => sales[i].invoice_number # sales[j].invoice_number
    /\ \A c \in Clients :
          (/\ Answered(c, "CreateSale") /\ WellFormed(th[c].cart)
           /\ \A k \in 1..Len(th[c].cart) : ~LineFails(th[c].cart, k))
              => th[c].result = "ok"

\* the sales a report over the dates startDate..endDate has to cover: completed
\* now, and created on a day from startDate to endDate, both days included
Qualifying(startDate, endDate) ==
    {id \in 1..Len(sales) :
        /\ sales[id].status = SaleStatusCompleted
        /\ startDate <= sales[id].created_at.day
        /\ sales[id].created_at.day <= endDate}

\* C17: GetSalesReport covers exactly the qualifying sales: its count and its
\* revenue are those of the sales that are completed at report time and were
\* created on a day from startDate to endDate, both boundary days included.
C17_ReportCoversQualifyingSales ==
    \A c \in Clients :
        (Answered(c, "GetSalesReport") /\ th[c].result = "ok") =>
            LET qualifying == Qualifying(th[c].startDate, th[c].endDate)
            IN  /\ th[c].resp.total_sales = Cardinality(qualifying)
                /\ th[c].resp.total_revenue = SumTotalAmount(qualifying)

\* the sales in the scope of a report: completed now, and created from
\* midnight of startDate to midnight of endDate, both instants included
InScope(startDate, endDate) ==
    {id \in 1..Len(sales) :
        /\ sales[id].status = SaleStatusCompleted
        /\ startDate <= sales[id].created_at.day
        /\ \/ sales[id].created_at.day < endDate
           \/ sales[id].created_at.day = endDate /\ ~sales[id].created_at.late}

RECURSIVE RevenueUpTo(_, _)
\* total_amount of the sales 1..n that are in the set scope
RevenueUpTo(scope, n) ==
    IF n = 0 THEN 0
    ELSE (IF n \in scope THEN sales[n].total_amount ELSE 0) + RevenueUpTo(scope, n - 1)

C19_RevenueReportSummaryAndBreakdown ==
    \A c \in Clients :
        (Answered(c, "GetRevenueReport") /\ th[c].result = "ok") =>
            LET report == th[c].resp
                summary == SalesReport(th[c].startDate, th[c].endDate)
                scope == InScope(th[c].startDate, th[c].endDate)
                PeriodOfSale(id) == PeriodOf(th[c].groupBy, sales[id].created_at.day)
                Entries(breakdown) ==
                    /\ \A k \in 1..Len(breakdown) :
                          LET group == {id \in scope : PeriodOfSale(id) = breakdown[k].period}
                          IN  /\ group # {}
                              /\ breakdown[k].sales_count = Cardinality(group)
                              /\ breakdown[k].revenue = RevenueUpTo(group, Len(sales))
                    /\ \A k \in 1..(Len(breakdown) - 1) :
                          breakdown[k].period < breakdown[k + 1].period
                    /\ \A id \in scope : \E k \in 1..Len(breakdown) :
                          breakdown[k].period = PeriodOfSale(id)
            IN  /\ \A field \in DOMAIN summary :
                      field \in DOMAIN report /\ report[field] = summary[field]
                /\ th[c].groupBy = "day" => Entries(report.daily_revenue)
                /\ th[c].groupBy = "month" => Entries(report.monthly_revenue)

\* C20: GetRevenueReport with startDate <= endDate and a groupBy that is empty
\* or is neither day nor month succeeds and returns no per-period breakdown.
C20_UnrecognizedGroupByIsSummaryOnly ==
    \A c \in Clients :
        (/\ Answered(c, "GetRevenueReport")
         /\ th[c].startDate <= th[c].endDate
         /\ th[c].groupBy \notin {"day", "month"}) =>
            /\ th[c].result = "ok"
            /\ th[c].resp.daily_revenue = <<>>
            /\ th[c].resp.weekly_revenue = <<>>
            /\ th[c].resp.monthly_revenue = <<>>

\* C26: when CreateSale has answered with success, for every product the sum
\* of the quantities of all line items of the created sale that name the
\* product is at most the stock the product had before the call.
C26_SaleWithinStock ==
    \A c \in Clients :
        CreatedOk(c) =>
            \A p \in Products :
                QtyOfProduct(ItemsOfSale(th[c].saleId), p) <= before.products[p].stock

\* quantity of product p in the line items of the sales that are completed
CompletedQty(p) ==
    SumQuantity(SelectSeq(sale_items,
                          LAMBDA it : /\ it.product = p
                                      /\ sales[it.sale].status = SaleStatusCompleted))

\* C27: between requests, with no storage failure, no concurrency and no
\* manual stock edit, for every product the current stock plus the quantity
\* of the product in line items of completed sales is the initial stock.
C27_StockConserved ==
    AllIdle => \A p \in Products : products[p].stock + CompletedQty(p) = stock0[p]

\* C30: when the two sales-report services have answered the same dates over
\* the same tables, both have failed or both have succeeded with the same
\* total_sales, total_revenue, total_items_sold and average_sale.
C30_ReportServicesEquivalent ==
    \A c1, c2 \in Clients :
        (/\ Answered(c1, "GetSalesReport") /\ Answered(c2, "ReportGetSalesReport")
         /\ th[c1].startDate = th[c2].startDate /\ th[c1].endDate = th[c2].endDate) =>
            /\ th[c1].result = "ok" <=> th[c2].result = "ok"
            /\ th[c1].result = "ok" =>
                  \A field \in {"total_sales", "total_revenue", "total_items_sold",
                                "average_sale"} :
                      th[c1].resp[field] = th[c2].resp[field]

\* C23: the low-stock listing holds exactly the products that are not deleted
\* and whose stock_quantity is at or below their min_stock_level, which are
\* the products whose response is flagged is_low_stock, those with stock 0
\* included.
C23_LowStockListingMatchesFlag ==
    \A c \in Clients :
        (Answered(c, "FindLowStock") /\ th[c].result = "ok") =>
            \A id \in Products :
                ~products[id].deleted =>
                    /\ (\E response \in th[c].resp : response.id = id)
                          <=> products[id].stock <= MinStockLevel
                    /\ (\E response \in th[c].resp : response.id = id)
                          <=> convertToResponse(id).is_low_stock

\* C21: a listing answered to a staff user holds only sales of that user and
\* its total counts those sales alone; a listing answered to an admin or a
\* super_admin is taken from all sales and its total counts all sales.
C21_ListingFilteredByOwner ==
    \A c \in Clients :
        (Answered(c, "GetAllSales") /\ th[c].result = "ok") =>
            LET listing == th[c].resp.sales
                total == th[c].resp.pagination.total
                own == {id \in 1..Len(sales) : sales[id].user_id = ctx[c].id}
            IN  IF ctx[c].role = RoleStaff
                THEN /\ \A k \in 1..Len(listing) :
                            /\ listing[k].id \in own
                            /\ listing[k].user_id = ctx[c].id
                     /\ total = Cardinality(own)
                ELSE /\ total = Len(sales)
                     /\ \A id \in 1..Len(sales) :
                            (th[c].req.page \subseteq {1} /\ th[c].req.limit = {MaxLimit})
                                => \E k \in 1..Len(listing) : listing[k].id = id

\* a staff user who owns one of two sales has listed one sale, with total 1
C21_Witness ==
    \E c \in Clients :
        /\ Answered(c, "GetAllSales") /\ th[c].result = "ok"
        /\ ctx[c].role = RoleStaff
        /\ Len(sales) = 2
        /\ Len(th[c].resp.sales) = 1
        /\ th[c].resp.pagination.total = 1
        /\ \E id \in 1..Len(sales) : sales[id].user_id # ctx[c].id

\* C22: a listing asked with a limit from 1 to 100 succeeds with that limit,
\* returning up to that many sales; one asked with any other limit is
\* answered InvalidRequest.
C22_LimitAcceptedOrRejected ==
    \A c \in Clients :
        (Answered(c, "GetAllSales") /\ ValidPage(th[c].req.page)) =>
            \A l \in th[c].req.limit :
                IF 1 <= l /\ l <= MaxLimit
                THEN /\ th[c].result = "ok"
                     /\ th[c].resp.pagination.limit = l
                     /\ Len(th[c].resp.sales) <= l
                     /\ (th[c].req.page \subseteq {1}) =>
                           Len(th[c].resp.sales) =
                               (IF th[c].resp.pagination.total < l
                                THEN th[c].resp.pagination.total ELSE l)
                ELSE th[c].result = "InvalidRequest"

\* a listing with limit 1 over two sales has returned one of them
C22_Witness ==
    \E c \in Clients :
        /\ Answered(c, "GetAllSales") /\ th[c].result = "ok"
        /\ th[c].req.limit = {1}
        /\ th[c].resp.pagination.total = 2
        /\ Len(th[c].resp.sales) = 1

\* C24: on GET /api/sales/{id} and PUT /api/sales/{id}/status a staff user is
\* let through exactly when the sale of the id is owned by that user, and an
\* admin or super_admin is always let through.
C24_OwnerOrAdminOnSaleRoutes ==
    \A c \in Clients :
        ((Answered(c, "GetSaleByID") \/ Answered(c, "UpdateSaleStatus"))
            /\ SaleExists(th[c].saleId)) =>
            IF ctx[c].role = RoleStaff
            THEN th[c].result # "Forbidden" <=> sales[th[c].saleId].user_id = ctx[c].id
            ELSE th[c].result # "Forbidden"

\* C25: a user has been created only with a role its creator may give: an
\* admin creates admin and staff, a super_admin every role, a staff none.
C25_RoleCeilingOnCreate ==
    \A c \in Clients :
        (Answered(c, "CreateUser") /\ th[c].result = "ok") =>
            CanCreateUserWithRole(ctx[c].role, th[c].req.role)

\* no request context holds an admin or a super_admin
NoAdminActing == \A c \in Clients : ~CanManageUsers(ctx[c].role)

\* no role changes and no deactivated account becomes active in this step
RolesAndDeactivationsKept ==
    \A n \in 1..Len(users) :
        /\ users'[n].role = users[n].role
        /\ ~users[n].is_active => ~users'[n].is_active

\* C28: a step of a request that is not authenticated as admin or
\* super_admin changes the role of no user and re-activates no account.
C28_StaffRaisesNoPrivilege == [][NoAdminActing => RolesAndDeactivationsKept]_vars

\* a revoked session stays in the table, revoked
RevokedKept ==
    \A token \in 1..Len(sessions) :
        sessions[token].revoked =>
            /\ token \in 1..Len(sessions')
            /\ sessions'[token].revoked
            /\ sessions'[token].user_id = sessions[token].user_id

\* the Auth middleware stores a user in a context in this step only for a
\* token whose session is neither revoked nor expired and whose user exists,
\* is not deleted and is active
StoredOnlyIfValid ==
    \A c \in Clients :
        (ctx[c] = NoUser /\ ctx'[c] # NoUser) =>
            LET token == ctx'[c].token
            IN  /\ token \in 1..Len(sessions)
                /\ ~sessions[token].revoked /\ ~sessions[token].expired
                /\ ctx'[c].id = sessions[token].user_id
                /\ ctx'[c].id \in 1..Len(users)
                /\ ~users[ctx'[c].id].deleted /\ users[ctx'[c].id].is_active

\* a successful Logout or LogoutAllUserSessions has left its sessions revoked
LogoutRevokes ==
    \A c \in Clients :
        /\ (Answered(c, "Logout") /\ th[c].result = "ok") =>
              sessions[th[c].req.token].revoked
        /\ (Answered(c, "LogoutAllUserSessions") /\ th[c].result = "ok") =>
              \A token \in 1..Len(sessions) :
                  sessions[token].user_id = th[c].req.user_id => sessions[token].revoked

\* ValidateToken fails for every revoked token
RevokedInvalid ==
    \A token \in 1..Len(sessions) : sessions[token].revoked => ValidateToken(token) = NoUser

\* C29: a successful Logout or LogoutAllUserSessions leaves the token
\* revoked, a revoked token stays revoked whatever happens later, and
\* ValidateToken fails for every revoked token; ValidateToken succeeds only
\* for a token whose session is not revoked and not expired and whose user
\* exists, is not deleted and is active.
C29_RevokedTokenStaysInvalid ==
    /\ [][RevokedKept /\ StoredOnlyIfValid]_vars
    /\ [](LogoutRevokes /\ RevokedInvalid)

\* a request with a token that was revoked by Logout has been answered 401
\* after its user has logged in again
C29_Witness ==
    \E c \in Clients :
        /\ Answered(c, "Auth") /\ th[c].result = "Unauthorized"
        /\ th[c].req.token \in 1..Len(sessions)
        /\ sessions[th[c].req.token].revoked
        /\ ~sessions[th[c].req.token].expired
        /\ \E later \in 1..Len(sessions) :
              /\ later > th[c].req.token
              /\ sessions[later].user_id = sessions[th[c].req.token].user_id
              /\ ~sessions[later].revoked

====
